---- MODULE Spec2Model ----
(***************************************************************************)
(* DataVizHub: the data pipeline of src/utils/data_processor.py            *)
(* (load_data/_clean_data, apply_filters, aggregate_data), the chart       *)
(* mapping of src/utils/chart_generator.py (create_chart) and the          *)
(* Streamlit script of src/app.py that drives them.                        *)
(*                                                                         *)
(* A DataFrame is a record [columns, rows]: the ordered column names and   *)
(* the rows in order, each row a function from column name to cell.  A     *)
(* cell is a record [t, s, n, d]: a string (t = "str", text s), a number   *)
(* (t = "num", the rational n/d in lowest terms), a Timestamp (t = "date") *)
(* or a missing value (t = "nan").  The row index pandas carries is not    *)
(* modelled.                                                               *)
(***************************************************************************)
EXTENDS Integers, Sequences, FiniteSets, TLC

VARIABLES
    \* --- a call of one DataProcessor method on arbitrary arguments ---
    pc,               \* "ready" before the call, "done" after it, "mutated"
    arg_data,         \* the DataFrame passed in
    arg_group_by,     \* aggregate_data: group_by_column
    arg_agg_column,   \* aggregate_data: agg_column
    arg_agg_function, \* aggregate_data: agg_function
    arg_filters,      \* apply_filters: the filters dict, its entries in iteration order
    heap,             \* the DataFrame objects that exist, by reference
    result_ref,       \* apply_filters: the reference returned (0: none)
    result,           \* what the call returned or raised
    arg_chart_type,   \* create_chart: chart_type
    arg_config,       \* create_chart: config
    figure,           \* create_chart: the Figure returned
    \* --- st.session_state of src/app.py ---
    data,             \* st.session_state.data: None or a DataFrame
    filtered_data,    \* st.session_state.filtered_data: None or a DataFrame
    filter_update_counter, \* st.session_state.filter_update_counter (0 when unset)
    widgets,          \* the value held under each filter widget's key, None when unset
    uploaded_file,    \* what st.file_uploader returns: None or the file
    rendered,         \* the DataFrame the charts of the last script run were
                      \* created from; None when that run created no chart
    in_effect,        \* history: the table in effect when that run rendered
    agg_applied       \* history: the aggregation the user applied last, if any

args == <<arg_data, arg_group_by, arg_agg_column, arg_agg_function, arg_filters>>
ui == <<filter_update_counter, widgets, uploaded_file, rendered, in_effect, agg_applied>>
chart_vars == <<arg_chart_type, arg_config, figure>>
vars == <<pc, args, chart_vars, heap, result_ref, result, data, filtered_data, ui>>

-----------------------------------------------------------------------------
(* Bounds of the model *)

\* rows of a DataFrame passed to aggregate_data
MaxRows == 3

\* rows of a DataFrame passed to apply_filters
MaxFilterRows == 2

\* script runs of one session that reach the Data Explorer tab
MaxRuns == 6

\* rows of a file passed to load_data
MaxLoadRows == 4

\* rows of a DataFrame passed to create_chart
MaxChartRows == 2

-----------------------------------------------------------------------------
(* Cells *)

Str(s) == [t |-> "str", s |-> s, n |-> 0, d |-> 1]
Num(n) == [t |-> "num", s |-> "", n |-> n, d |-> 1]
Frac(n, d) == [t |-> "num", s |-> "", n |-> n, d |-> d]
NaN == [t |-> "nan", s |-> "", n |-> 0, d |-> 1]
\* a Timestamp, written as the text it was parsed from
Date(s) == [t |-> "date", s |-> s, n |-> 0, d |-> 1]

isna(c) == c.t = "nan"
notna(c) == c.t # "nan"

\* Python's None for a session_state entry, and a held value
None == <<>>
Some(v) == <<v>>
Get(o) == o[1]

\* no filter widget holds a value
NoWidgets == [c \in {"Category", "Value"} |-> None]

RECURSIVE Gcd(_, _)
Gcd(a, b) == IF b = 0 THEN a ELSE Gcd(b, a % b)

\* Python's order on the strings the model uses (code points)
StrRank(s) ==
    CASE s = "1" -> 1
      [] s = "2" -> 2
      [] s = "A" -> 3
      [] s = "B" -> 4
      [] s = "C" -> 5
      [] OTHER -> 6

\* a < b for two non-missing cells of one column
CellLess(a, b) ==
    IF a.t = "num" /\ b.t = "num" THEN a.n * b.d < b.n * a.d
    ELSE IF a.t = "str" /\ b.t = "str" THEN StrRank(a.s) < StrRank(b.s)
    ELSE a.t = "num" /\ b.t = "str"

-----------------------------------------------------------------------------
(* DataFrames *)

DataFrame(cols, rows) == [columns |-> cols, rows |-> rows]
NoFrame == DataFrame(<<>>, <<>>)

Range(s) == {s[i] : i \in DOMAIN s}
has_column(df, c) == c \in Range(df.columns)
empty(df) == Len(df.rows) = 0 \/ Len(df.columns) = 0

\* what a method returns, or the exception it raises
Ok(df) == [exc |-> "", cause |-> "", value |-> df]
Raise(e, c) == [exc |-> e, cause |-> c, value |-> NoFrame]
NoResult == [exc |-> "", cause |-> "not called", value |-> NoFrame]

-----------------------------------------------------------------------------
(* DataProcessor.aggregate_data *)

\* agg_function values the if-chain of aggregate_data accepts
AggFunctions == {"count", "sum", "mean", "min", "max"}

\* the cells of S in ascending order
RECURSIVE SortCells(_)
SortCells(S) ==
    IF S = {} THEN <<>>
    ELSE LET m == CHOOSE x \in S : \A y \in S \ {x} : CellLess(x, y)
         IN <<m>> \o SortCells(S \ {m})

\* the cells of rows[1..], column c, in first-appearance order without repeats
RECURSIVE FirstAppearance(_, _, _)
FirstAppearance(rows, c, seen) ==
    IF rows = <<>> THEN <<>>
    ELSE LET k == Head(rows)[c]
         IN IF k \in seen THEN FirstAppearance(Tail(rows), c, seen)
            ELSE <<k>> \o FirstAppearance(Tail(rows), c, seen \cup {k})

\* groupby(by, sort=False): the keys in first-appearance order
groupby_keys_unsorted(df, by) ==
    FirstAppearance(SelectSeq(df.rows, LAMBDA r : notna(r[by])), by, {})

\* groupby(by, dropna=False): the missing key is a group, sorted last
groupby_keys_keepna(df, by) ==
    LET all == {r[by] : r \in Range(df.rows)}
    IN SortCells(all \ {NaN}) \o (IF NaN \in all THEN <<NaN>> ELSE <<>>)

\* DataFrame.groupby(by) with its defaults sort=True, dropna=True: the group
\* keys are the distinct non-missing values of the column, in ascending order
groupby_keys(df, by) ==
    SortCells({r[by] : r \in Range(df.rows)} \ {NaN})

\* size() in place of count(): the missing cells are kept
group_values_all(df, by, key, col) ==
    LET InGroup(r) == r[by] = key
        rows == SelectSeq(df.rows, InGroup)
    IN [i \in 1..Len(rows) |-> rows[i][col]]

\* the non-missing cells of column col in the rows of group key
group_values(df, by, key, col) ==
    LET InGroup(r) == r[by] = key /\ notna(r[col])
        rows == SelectSeq(df.rows, InGroup)
    IN [i \in 1..Len(rows) |-> rows[i][col]]

RECURSIVE SumCells(_)
SumCells(cells) ==
    IF cells = <<>> THEN 0 ELSE Head(cells).n + SumCells(Tail(cells))

\* sum(min_count=1): the sum of no cells is missing
reduce_sum_min_count(agg_function, cells) ==
    CASE agg_function = "count" -> Num(Len(cells))
      [] agg_function = "sum" -> IF cells = <<>> THEN NaN ELSE Num(SumCells(cells))
      [] agg_function = "mean" ->
            IF cells = <<>> THEN NaN
            ELSE LET s == SumCells(cells)
                     g == Gcd(IF s < 0 THEN -s ELSE s, Len(cells))
                 IN Frac(s \div g, Len(cells) \div g)
      [] agg_function = "min" ->
            IF cells = <<>> THEN NaN
            ELSE CHOOSE x \in Range(cells) : \A y \in Range(cells) : ~CellLess(y, x)
      [] agg_function = "max" ->
            IF cells = <<>> THEN NaN
            ELSE CHOOSE x \in Range(cells) : \A y \in Range(cells) : ~CellLess(x, y)

\* SeriesGroupBy.count/sum/mean/min/max of one group's non-missing cells:
\* count and sum of no cells are 0, mean/min/max of no cells are NaN
reduce(agg_function, cells) ==
    CASE agg_function = "count" -> Num(Len(cells))
      [] agg_function = "sum" -> Num(SumCells(cells))
      [] agg_function = "mean" ->
            IF cells = <<>> THEN NaN
            ELSE LET s == SumCells(cells)
                     g == Gcd(IF s < 0 THEN -s ELSE s, Len(cells))
                 IN Frac(s \div g, Len(cells) \div g)
      [] agg_function = "min" ->
            IF cells = <<>> THEN NaN
            ELSE CHOOSE x \in Range(cells) : \A y \in Range(cells) : ~CellLess(y, x)
      [] agg_function = "max" ->
            IF cells = <<>> THEN NaN
            ELSE CHOOSE x \in Range(cells) : \A y \in Range(cells) : ~CellLess(x, y)

\* f"{agg_column}_{agg_function}"
result_column_swapped(agg_function, agg_column) == agg_column \o "_" \o agg_function

\* f"{agg_function}_{agg_column}"
result_column(agg_function, agg_column) == agg_function \o "_" \o agg_column

aggregate_data(df, group_by_column, agg_column, agg_function) ==
    IF agg_function \notin AggFunctions
    THEN Raise("Exception", "ValueError: Unsupported aggregation function")
    ELSE IF ~has_column(df, group_by_column)
    THEN Raise("Exception", "KeyError: group_by_column")
    ELSE IF ~has_column(df, agg_column)
    THEN Raise("Exception", "KeyError: agg_column")
    ELSE IF group_by_column = agg_column
    THEN Raise("Exception", "ValueError: cannot insert, already exists")
    ELSE LET keys == groupby_keys(df, group_by_column)
             out == result_column(agg_function, agg_column)
             row(k) == (group_by_column :> k) @@
                       (out :> reduce(agg_function,
                                      group_values(df, group_by_column, k, agg_column)))
         IN Ok(DataFrame(<<group_by_column, out>>,
                         [i \in 1..Len(keys) |-> row(keys[i])]))

-----------------------------------------------------------------------------
(* DataProcessor.apply_filters *)

\* A DataFrame object lives in the heap, a sequence indexed by reference;
\* a new object is appended.  A filters entry is [column, kind, members,
\* lo, hi]: kind "list" (isinstance list) with its members, kind "tuple"
\* (a tuple of length 2) with (lo, hi), or any other kind of value.
Entry(column, kind, members, lo, hi) ==
    [column |-> column, kind |-> kind, members |-> members, lo |-> lo, hi |-> hi]
ListFilter(column, members) == Entry(column, "list", members, 0, 0)
RangeFilter(column, lo, hi) == Entry(column, "tuple", {}, lo, hi)
OtherFilter(column) == Entry(column, "str", {}, 0, 0)

\* filtered_data = data: both names refer to one object
copy_alias(h, ref) == [heap |-> h, ref |-> ref]

\* DataFrame.copy(): a new object with the same columns and cells
copy(h, ref) == [heap |-> Append(h, h[ref]), ref |-> Len(h) + 1]

\* a missing cell is in no list of values
isin_notna(cell, members) == cell \in members /\ notna(cell)

\* Series.isin(values): a missing cell is in values when NaN is
isin(cell, members) == cell \in members

\* (cell > min_val) & (cell < max_val)
between_exclusive(cell, min_val, max_val) ==
    /\ cell.t = "num"
    /\ min_val * cell.d < cell.n
    /\ cell.n < max_val * cell.d

\* (cell >= min_val) & (cell <= max_val); a missing cell compares False
between(cell, min_val, max_val) ==
    /\ cell.t = "num"
    /\ min_val * cell.d <= cell.n
    /\ cell.n <= max_val * cell.d

\* Series >= number raises TypeError when a cell is a string
comparable(df, column) == \A r \in Range(df.rows) : r[column].t # "str"

\* the rows of df at which the boolean mask is true, in order: df[mask],
\* a new object
mask_rows(df, mask) ==
    LET kept == SelectSeq([i \in 1..Len(df.rows) |-> i], LAMBDA i : mask[i])
    IN DataFrame(df.columns, [k \in 1..Len(kept) |-> df.rows[kept[k]]])

\* the loop without the test of line 94: indexing an absent column raises
RECURSIVE filter_loop_rejects_absent(_, _, _, _)
filter_loop_rejects_absent(h, cur, filters, i) ==
    IF i > Len(filters) THEN [heap |-> h, ref |-> cur, exc |-> ""]
    ELSE LET f == filters[i]
             df == h[cur]
             InList == [k \in 1..Len(df.rows) |->
                          isin(df.rows[k][f.column], f.members)]
             InRange == [k \in 1..Len(df.rows) |->
                           between(df.rows[k][f.column], f.lo, f.hi)]
         IN IF f.kind \notin {"list", "tuple"}
            THEN filter_loop_rejects_absent(h, cur, filters, i + 1)
            ELSE IF ~has_column(df, f.column)
            THEN [heap |-> h, ref |-> 0, exc |-> "KeyError"]
            ELSE IF f.kind = "list"
            THEN filter_loop_rejects_absent(Append(h, mask_rows(df, InList)), Len(h) + 1,
                                            filters, i + 1)
            ELSE IF ~comparable(df, f.column)
            THEN [heap |-> h, ref |-> 0, exc |-> "TypeError"]
            ELSE filter_loop_rejects_absent(Append(h, mask_rows(df, InRange)), Len(h) + 1,
                                            filters, i + 1)

\* the for loop of lines 93-104 from entry i on; cur refers to filtered_data
RECURSIVE filter_loop(_, _, _, _)
filter_loop(h, cur, filters, i) ==
    IF i > Len(filters) THEN [heap |-> h, ref |-> cur, exc |-> ""]
    ELSE LET f == filters[i]
             df == h[cur]
             InList == [k \in 1..Len(df.rows) |->
                          isin(df.rows[k][f.column], f.members)]
             InRange == [k \in 1..Len(df.rows) |->
                           between(df.rows[k][f.column], f.lo, f.hi)]
         IN IF ~has_column(df, f.column) THEN filter_loop(h, cur, filters, i + 1)
            ELSE IF f.kind = "list"
            THEN filter_loop(Append(h, mask_rows(df, InList)), Len(h) + 1, filters, i + 1)
            ELSE IF f.kind = "tuple"
            THEN IF ~comparable(df, f.column)
                 THEN [heap |-> h, ref |-> 0, exc |-> "TypeError"]
                 ELSE filter_loop(Append(h, mask_rows(df, InRange)), Len(h) + 1,
                                  filters, i + 1)
            ELSE filter_loop(h, cur, filters, i + 1)

\* every entry filters data, not filtered_data: the last entry wins
apply_filters_last_wins(h, data_ref, filters) ==
    LET c == copy(h, data_ref)
    IN filter_loop(c.heap, c.ref, filters, IF filters = <<>> THEN 1 ELSE Len(filters))

\* apply_filters(data, filters) in heap h: the heap after the call, the
\* reference returned and the exception raised, if any
apply_filters(h, data_ref, filters) ==
    LET c == copy(h, data_ref)
    IN filter_loop(c.heap, c.ref, filters, 1)

\* the call on a DataFrame value: what it returns or raises
apply_filters_value(df, filters) ==
    LET r == apply_filters(<<df>>, 1, filters)
    IN IF r.exc = "" THEN Ok(r.heap[r.ref]) ELSE Raise(r.exc, "")

-----------------------------------------------------------------------------
(* DataProcessor.load_data and _clean_data *)

\* An uploaded file: what follows the last dot of its name, the encoding of
\* its bytes, whether the format parses, and the fields of its table.
File(ext, encoding, parses, frame) ==
    [ext |-> ext, encoding |-> encoding, parses |-> parses, frame |-> frame]

\* the dtype pandas gives a column: object when it holds a string
dtype(df, col) ==
    IF \E r \in Range(df.rows) : r[col].t = "str" THEN "object"
    ELSE IF \E r \in Range(df.rows) : r[col].t = "date" THEN "datetime64[ns]"
    ELSE "float64"

\* pd.to_numeric(errors='coerce') of one cell: of the strings of the model,
\* "1" and "2" read as numbers
to_numeric(cell) ==
    IF cell.t = "num" THEN cell
    ELSE IF cell = Str("1") THEN Num(1)
    ELSE IF cell = Str("2") THEN Num(2)
    ELSE NaN

\* pd.to_datetime(errors='coerce') of one cell: of the strings of the model,
\* "2024-01-05" reads as a date.  Whether pandas reads a string of digits as
\* a date is left open: no column of the model holds both digits and dates,
\* and a column of digits and text that reaches the second loop has failed
\* the same threshold in the first.
to_datetime(cell) ==
    IF cell.t = "date" THEN cell
    ELSE IF cell = Str("2024-01-05") THEN Date(cell.s)
    ELSE NaN

\* the type inference of pd.read_csv: a column whose non-empty fields all
\* read as numbers is parsed as numbers, any other column keeps its strings
infer_types(df) ==
    LET numeric(c) == \A r \in Range(df.rows) : isna(r[c]) \/ notna(to_numeric(r[c]))
    IN DataFrame(df.columns,
                 [i \in 1..Len(df.rows) |->
                    [c \in Range(df.columns) |->
                        IF numeric(c) THEN to_numeric(df.rows[i][c]) ELSE df.rows[i][c]]])

\* the columns of df in order, restricted to those satisfying keep
select_columns(df, keep) ==
    LET cols == SelectSeq(df.columns, LAMBDA c : c \in keep)
    IN DataFrame(cols, [i \in 1..Len(df.rows) |-> [c \in Range(cols) |-> df.rows[i][c]]])

\* dropna(how='all'): the rows with a non-missing cell
dropna_rows(df) ==
    LET HasValue(r) == \E c \in Range(df.columns) : notna(r[c])
    IN DataFrame(df.columns, SelectSeq(df.rows, HasValue))

\* dropna(axis=1, how='all'): the columns with a non-missing cell
dropna_columns(df) ==
    select_columns(df, {c \in Range(df.columns) :
                            \E r \in Range(df.rows) : notna(r[c])})

\* the share is taken of the column's non-missing cells
convert_columns_of_non_missing(df, kind) ==
    LET conv(cell) == IF kind = "numeric" THEN to_numeric(cell)
                      ELSE to_datetime(cell)
        converted(c) == {i \in 1..Len(df.rows) : notna(conv(df.rows[i][c]))}
        non_missing(c) == {i \in 1..Len(df.rows) : notna(df.rows[i][c])}
        replace(c) == /\ dtype(df, c) = "object"
                      /\ converted(c) # {}
                      /\ 2 * Cardinality(converted(c)) > Cardinality(non_missing(c))
    IN DataFrame(df.columns,
                 [i \in 1..Len(df.rows) |->
                    [c \in Range(df.columns) |->
                        IF replace(c) THEN conv(df.rows[i][c]) ELSE df.rows[i][c]]])

\* the threshold is >= 0.5
convert_columns_at_least_half(df, kind) ==
    LET conv(cell) == IF kind = "numeric" THEN to_numeric(cell)
                      ELSE to_datetime(cell)
        converted(c) == {i \in 1..Len(df.rows) : notna(conv(df.rows[i][c]))}
        replace(c) == /\ dtype(df, c) = "object"
                      /\ converted(c) # {}
                      /\ 2 * Cardinality(converted(c)) >= Len(df.rows)
    IN DataFrame(df.columns,
                 [i \in 1..Len(df.rows) |->
                    [c \in Range(df.columns) |->
                        IF replace(c) THEN conv(df.rows[i][c]) ELSE df.rows[i][c]]])

\* one conversion loop of _clean_data (lines 56-63, 66-76): an object column
\* is replaced when more than half of len(data) of its cells convert
convert_columns(df, kind) ==
    LET conv(cell) == IF kind = "numeric" THEN to_numeric(cell)
                      ELSE to_datetime(cell)
        converted(c) == {i \in 1..Len(df.rows) : notna(conv(df.rows[i][c]))}
        replace(c) == /\ dtype(df, c) = "object"
                      /\ converted(c) # {}
                      /\ 2 * Cardinality(converted(c)) > Len(df.rows)
    IN DataFrame(df.columns,
                 [i \in 1..Len(df.rows) |->
                    [c \in Range(df.columns) |->
                        IF replace(c) THEN conv(df.rows[i][c]) ELSE df.rows[i][c]]])

_clean_data(df) ==
    convert_columns(convert_columns(dropna_columns(dropna_rows(df)), "numeric"),
                    "datetime")

\* pd.read_csv(uploaded_file, encoding=encoding): bytes that are not UTF-8
\* raise UnicodeDecodeError under 'utf-8'; every byte decodes under 'latin-1'
read_csv(file, encoding) ==
    IF encoding = "utf-8" /\ file.encoding # "utf-8" THEN Raise("UnicodeDecodeError", "")
    ELSE IF file.parses THEN Ok(infer_types(file.frame))
    ELSE Raise("ParserError", "")

\* pd.read_excel(uploaded_file)
read_excel(file) == IF file.parses THEN Ok(file.frame) ELSE Raise("BadZipFile", "")

\* str.lower() of the extensions the model uses
lower(s) == IF s = "CSV" THEN "csv" ELSE s

load_data(file) ==
    LET file_extension == lower(file.ext)
        first == read_csv(file, "utf-8")
        read == IF file_extension = "csv"
                THEN IF first.exc = "UnicodeDecodeError" THEN read_csv(file, "latin-1")
                     ELSE first
                ELSE IF file_extension \in {"xlsx", "xls"} THEN read_excel(file)
                ELSE Raise("ValueError", "Unsupported file format")
    IN IF read.exc = "" THEN Ok(_clean_data(read.value))
       ELSE Raise("Exception", "Error loading file")

-----------------------------------------------------------------------------
(* The inputs the calls are tried on *)

\* a text column with a missing cell and a numeric column with a missing cell
CategoryCells == {Str("A"), Str("B"), NaN}
ValueCells == {Num(1), Num(2), NaN}
FrameRows == [Category : CategoryCells, Value : ValueCells]
Frames(n) ==
    {DataFrame(<<"Category", "Value">>, rows) :
        rows \in UNION {[1..k -> FrameRows] : k \in 0..n}}

\* column names and function names passed in: those of the table and of the
\* selectbox of app.py:341, one absent column each and one unsupported function
GroupByArgs == {"Category", "Value", "Region"}
AggColumnArgs == {"Value", "Price"}
AggFunctionArgs == AggFunctions \cup {"median"}

\* filters dicts: a membership list on the text column or a range on the
\* numeric column as app.py:264-287 builds them, a list on the numeric
\* column, a range on the text column, a value that is neither a list nor a
\* 2-tuple, and an entry for a column the table lacks; each column at most
\* once (dict keys), in every iteration order
CategoryFilters ==
    {ListFilter("Category", m) : m \in {{Str("A")}, {Str("B"), NaN}, {Str("A"), Str("B")}}}
        \cup {RangeFilter("Category", 1, 2), OtherFilter("Category")}
ValueFilters ==
    {RangeFilter("Value", lo, hi) : lo \in {1, 2}, hi \in {1, 2}}
        \cup {ListFilter("Value", {Num(1)})}
RegionFilters == {ListFilter("Region", {Str("A")})}
FilterEntries == CategoryFilters \cup ValueFilters \cup RegionFilters
FilterDicts ==
    {fs \in UNION {[1..k -> FilterEntries] : k \in 0..3} :
        \A i, j \in 1..Len(fs) : i # j => fs[i].column # fs[j].column}

\* the files a user uploads: a table in the format app.py:95-100 shows,
\* with a missing cell; the same bytes in Latin-1; a table with an empty row
\* and missing categories; one whose numeric column is empty; a header
\* without rows; and a file that does not parse
Row(category, value) == [Category |-> category, Value |-> value]
SampleFrame ==
    DataFrame(<<"Category", "Value">>,
              <<Row(Str("A"), Num(1)), Row(Str("B"), Num(2)), Row(Str("A"), NaN)>>)
SparseFrame ==
    DataFrame(<<"Category", "Value">>,
              <<Row(NaN, Num(2)), Row(NaN, NaN), Row(Str("B"), Num(1))>>)
TextOnlyFrame ==
    DataFrame(<<"Category", "Value">>, <<Row(Str("B"), NaN), Row(Str("A"), NaN)>>)
HeaderOnlyFrame == DataFrame(<<"Category", "Value">>, <<>>)
Uploads ==
    {File("csv", "utf-8", TRUE, f) :
        f \in {SampleFrame, SparseFrame, TextOnlyFrame, HeaderOnlyFrame}}
        \cup {File("csv", "latin-1", TRUE, SampleFrame),
              File("csv", "utf-8", FALSE, NoFrame)}

\* the tables load_data is tried on: a column of digits, text and empty
\* fields beside a column of dates, text and empty fields; a row varies one
\* of the two beside a word in the other, or is empty
CodeCells == {Str("1"), Str("A"), NaN}
WhenCells == {Str("2024-01-05"), Str("A"), NaN}
LoadRows ==
    {[Code |-> c, When |-> Str("A")] : c \in CodeCells}
        \cup {[Code |-> Str("A"), When |-> w] : w \in WhenCells}
        \cup {[Code |-> NaN, When |-> NaN]}
LoadFrames(n) ==
    {DataFrame(<<"Code", "When">>, rows) :
        rows \in UNION {[1..k -> LoadRows] : k \in 0..n}}

\* two digits and a word: more than half of the fields read as numbers
MostlyDigits ==
    DataFrame(<<"Code", "When">>,
              <<[Code |-> Str("1"), When |-> NaN], [Code |-> Str("A"), When |-> NaN],
                [Code |-> Str("2"), When |-> NaN]>>)

\* the files handed to load_data: every table as UTF-8 CSV, and one table
\* under every extension, encoding and state of repair, with names the
\* uploader of app.py:53-57 would refuse among them
LoadFiles(n) ==
    {File("csv", "utf-8", TRUE, f) : f \in LoadFrames(n)}
        \cup {File(ext, enc, parses, MostlyDigits) :
                ext \in {"csv", "CSV", "xlsx", "xls", "txt"},
                enc \in {"utf-8", "latin-1"},
                parses \in BOOLEAN}

-----------------------------------------------------------------------------
(* ChartGenerator.create_chart *)

\* A config is the dict of app.py:28: each field None or a string.  A Figure
\* is a record: kind "empty" for the Figure of _create_empty_chart, with its
\* annotation text in message; else the kind of trace, the DataFrame handed
\* to plotly express and the columns it was told to draw.
Config(x, y, color, size, values, names) ==
    [x |-> x, y |-> y, color |-> color, size |-> size, values |-> values, names |-> names]
NoConfig == Config(None, None, None, None, None, None)

Figure(kind, message, frame, x, y, color, size, showlegend) ==
    [kind |-> kind, message |-> message, frame |-> frame, x |-> x, y |-> y,
     color |-> color, size |-> size, showlegend |-> showlegend]
NoFigure == Figure("none", "", NoFrame, None, None, None, None, FALSE)

\* the chart variables of a specification that creates no chart
ChartUnused ==
    /\ arg_chart_type = ""
    /\ arg_config = NoConfig
    /\ figure = NoFigure

_create_empty_chart(message) ==
    Figure("empty", message, NoFrame, None, None, None, None, FALSE)

\* "not x_col": None and the empty string are false
falsy_none_only(col) == col = None
falsy(col) == col = None \/ col = Some("")

\* "data is None or data.empty"
no_data_none_only(df) == df = None
no_data(df) == df = None \/ empty(Get(df))

\* "col if col and col in data.columns else None"
optional_column_required(df, col) == col
optional_column(df, col) ==
    IF ~falsy(col) /\ has_column(df, Get(col)) THEN col ELSE None

\* the message of each kind's first test
select_message(kind) ==
    CASE kind = "bar" -> "Please select X and Y axes for bar chart"
      [] kind = "line" -> "Please select X and Y axes for line chart"
      [] kind = "scatter" -> "Please select X and Y axes for scatter plot"
      [] kind = "pie" -> "Please select Values and Names for pie chart"

\* what a chart method returns or raises: a Figure, or the exception's text
Drawn(fig) == [exc |-> "", fig |-> fig]
Failed(text) == [exc |-> text, fig |-> NoFigure]

\* plotly express draws the marker sizes from numbers that are not negative:
\* it raises ValueError for a size column with a string or a missing cell
valid_sizes(df, size) ==
    \/ size = None
    \/ /\ has_column(df, Get(size))
       /\ \A r \in Range(df.rows) : r[Get(size)].t = "num" /\ r[Get(size)].n >= 0

\* DataFrame.sort_values(by): ascending, the missing values last, rows with
\* equal values in their input order
RECURSIVE sort_values(_, _)
sort_values(rows, by) ==
    IF rows = <<>> THEN <<>>
    ELSE LET Before(a, b) == notna(a[by]) /\ (isna(b[by]) \/ CellLess(a[by], b[by]))
             first == CHOOSE i \in 1..Len(rows) :
                        /\ \A j \in 1..Len(rows) : ~Before(rows[j], rows[i])
                        /\ \A j \in 1..(i - 1) : Before(rows[i], rows[j])
         IN <<rows[first]>> \o
            sort_values([k \in 1..(Len(rows) - 1) |->
                            IF k < first THEN rows[k] ELSE rows[k + 1]], by)

\* data.sort_values(by=x_col, inplace=True): the caller's table is reordered
sorted_in_place(df, by) ==
    [data |-> DataFrame(df.columns, sort_values(df.rows, by)),
     sorted |-> DataFrame(df.columns, sort_values(df.rows, by))]

\* line 85, data_sorted = data.sort_values(by=x_col): a new DataFrame holds
\* the sorted rows and data is left as it was
sorted_copy(df, by) ==
    [data |-> df, sorted |-> DataFrame(df.columns, sort_values(df.rows, by))]

_create_bar_chart(df, config) ==
    IF falsy(config.x) \/ falsy(config.y)
    THEN Drawn(_create_empty_chart(select_message("bar")))
    ELSE IF ~has_column(df, Get(config.x)) \/ ~has_column(df, Get(config.y))
    THEN Drawn(_create_empty_chart("Selected columns not found in data"))
    ELSE Drawn(Figure("bar", "", df, config.x, config.y,
                      optional_column(df, config.color), None, ~falsy(config.color)))

_create_line_chart(df, config) ==
    IF falsy(config.x) \/ falsy(config.y)
    THEN Drawn(_create_empty_chart(select_message("line")))
    ELSE IF ~has_column(df, Get(config.x)) \/ ~has_column(df, Get(config.y))
    THEN Drawn(_create_empty_chart("Selected columns not found in data"))
    ELSE Drawn(Figure("line", "", sorted_copy(df, Get(config.x)).sorted,
                      config.x, config.y,
                      optional_column(df, config.color), None, ~falsy(config.color)))

_create_scatter_chart(df, config) ==
    IF falsy(config.x) \/ falsy(config.y)
    THEN Drawn(_create_empty_chart(select_message("scatter")))
    ELSE IF ~has_column(df, Get(config.x)) \/ ~has_column(df, Get(config.y))
    THEN Drawn(_create_empty_chart("Selected columns not found in data"))
    ELSE IF ~valid_sizes(df, optional_column(df, config.size))
    THEN Failed("Invalid element(s) received for the 'size' property")
    ELSE Drawn(Figure("scatter", "", df, config.x, config.y,
                      optional_column(df, config.color),
                      optional_column(df, config.size),
                      ~falsy(config.color) \/ ~falsy(config.size)))

\* the strings of cells joined in order: the sum of a group of an object column
RECURSIVE JoinCells(_)
JoinCells(cells) ==
    IF cells = <<>> THEN "" ELSE Head(cells).s \o JoinCells(Tail(cells))

\* one row per group, its cells in place of their sum
pie_group_first(cells) ==
    IF cells = <<>> THEN Num(0) ELSE Head(cells)

\* SeriesGroupBy.sum() of one group's non-missing cells
pie_group_sum(cells) ==
    IF \E i \in 1..Len(cells) : cells[i].t = "str" THEN Str(JoinCells(cells))
    ELSE reduce("sum", cells)

\* line 154: data.groupby(names_col)[values_col].sum().reset_index().  The
\* sum of an object column is left to pandas: object_sum_fails says whether
\* this build raises TypeError for it or joins the strings.
pie_data(df, values_col, names_col, object_sum_fails) ==
    IF names_col = values_col
    THEN Raise("ValueError", "cannot insert " \o names_col \o ", already exists")
    ELSE IF dtype(df, values_col) = "object" /\ object_sum_fails
    THEN Raise("TypeError", "unsupported operand type(s) for +")
    ELSE LET keys == groupby_keys(df, names_col)
             row(k) == (names_col :> k) @@
                       (values_col :> pie_group_sum(group_values(df, names_col, k, values_col)))
         IN Ok(DataFrame(<<names_col, values_col>>, [i \in 1..Len(keys) |-> row(keys[i])]))

\* for a pie, x holds names and y holds values
_create_pie_chart(df, config, object_sum_fails) ==
    IF falsy(config.values) \/ falsy(config.names)
    THEN Drawn(_create_empty_chart(select_message("pie")))
    ELSE IF ~has_column(df, Get(config.values)) \/ ~has_column(df, Get(config.names))
    THEN Drawn(_create_empty_chart("Selected columns not found in data"))
    ELSE LET grouped == pie_data(df, Get(config.values), Get(config.names), object_sum_fails)
         IN IF grouped.exc # "" THEN Failed(grouped.cause)
            ELSE Drawn(Figure("pie", "", grouped.value, config.names, config.values,
                              None, None, TRUE))

\* the except clause lets the exception out
handle_reraises(r) == IF r.exc = "" THEN r.fig ELSE NoFigure

\* lines 37-38: an exception of the chart methods becomes an empty chart
handle(r) ==
    IF r.exc = "" THEN r.fig ELSE _create_empty_chart("Error creating chart: " \o r.exc)

\* create_chart(data, chart_type, config), data None or a DataFrame
create_chart(df, chart_type, config, object_sum_fails) ==
    IF no_data(df) THEN _create_empty_chart("No data available")
    ELSE IF chart_type = "bar" THEN handle(_create_bar_chart(Get(df), config))
    ELSE IF chart_type = "line" THEN handle(_create_line_chart(Get(df), config))
    ELSE IF chart_type = "scatter" THEN handle(_create_scatter_chart(Get(df), config))
    ELSE IF chart_type = "pie"
    THEN handle(_create_pie_chart(Get(df), config, object_sum_fails))
    ELSE _create_empty_chart("Unsupported chart type: " \o chart_type)

\* the caller's table after create_chart returned: the chart methods read
\* it, and the line chart sorts a copy of it
data_after_chart(df, chart_type, config) ==
    IF no_data(df) THEN df
    ELSE IF /\ chart_type = "line"
            /\ ~falsy(config.x) /\ ~falsy(config.y)
            /\ has_column(Get(df), Get(config.x)) /\ has_column(Get(df), Get(config.y))
    THEN Some(sorted_copy(Get(df), Get(config.x)).data)
    ELSE df

\* the arguments create_chart is tried on: the kinds of app.py:123 and one
\* other; for each field None, the empty string, the columns of the table
\* and an absent column
ChartTypeArgs == {"bar", "line", "scatter", "pie", "histogram"}
ColumnArgs == {None, Some(""), Some("Category"), Some("Value"), Some("Region")}
ColorArgs == {None, Some("Category"), Some("Region")}
SizeArgs == {None, Some("Value"), Some("Category"), Some("Region")}
ConfigArgs(chart_type) ==
    IF chart_type \in {"bar", "line"}
    THEN {Config(x, y, c, None, None, None) :
            x \in ColumnArgs, y \in ColumnArgs, c \in ColorArgs}
    ELSE IF chart_type = "scatter"
    THEN {Config(x, y, c, z, None, None) :
            x \in ColumnArgs \ {Some("")}, y \in {None, Some("Value"), Some("Region")},
            c \in ColorArgs, z \in SizeArgs}
    ELSE IF chart_type = "pie"
    THEN {Config(None, None, None, None, v, n) : v \in ColumnArgs, n \in ColumnArgs}
    ELSE {NoConfig, Config(Some("Category"), Some("Value"), None, None, None, None)}
ChartTables(n) == {None, Some(NoFrame)} \cup {Some(f) : f \in Frames(n)}

-----------------------------------------------------------------------------
(* app.py, Apply Aggregation: the assignment of lines 344-346 *)

\* the outcome of the statement for what aggregate_data returned or raised,
\* r: the value of st.session_state.filtered_data after it and whether the
\* exception left the script; the entry is cleared when aggregate_data raises
assign_result_clears(fd, r) ==
    [filtered_data |-> IF r.exc = "" THEN Some(r.value) ELSE None, raised |-> r.exc # ""]

\* the assignment happens only when aggregate_data returns
assign_result(fd, r) ==
    [filtered_data |-> IF r.exc = "" THEN Some(r.value) ELSE fd, raised |-> r.exc # ""]

apply_aggregation(fd, group_by, agg_column, agg_function) ==
    assign_result(fd, aggregate_data(Get(fd), group_by, agg_column, agg_function))

\* the session variables of a specification that runs no script
UiUnused ==
    /\ filter_update_counter = 0
    /\ widgets = NoWidgets
    /\ uploaded_file = None
    /\ rendered = None
    /\ in_effect = None
    /\ agg_applied = None

-----------------------------------------------------------------------------
(* SpecAggregate: aggregate_data called by the Apply Aggregation statement  *)
(* on every table and every argument of the bounded sets                    *)

InitAggregate ==
    /\ pc = "ready"
    /\ arg_data \in Frames(MaxRows)
    /\ arg_group_by \in GroupByArgs
    /\ arg_agg_column \in AggColumnArgs
    /\ arg_agg_function \in AggFunctionArgs
    /\ arg_filters = <<>>
    /\ ChartUnused
    /\ heap = <<>>
    /\ result_ref = 0
    /\ result = NoResult
    /\ data = None
    /\ filtered_data = Some(arg_data)
    /\ UiUnused

AggregateCall ==
    /\ pc = "ready"
    /\ result' = aggregate_data(Get(filtered_data), arg_group_by,
                                arg_agg_column, arg_agg_function)
    /\ filtered_data' = apply_aggregation(filtered_data, arg_group_by, arg_agg_column,
                                          arg_agg_function).filtered_data
    /\ pc' = "done"
    /\ UNCHANGED <<args, chart_vars, heap, result_ref, data, ui>>

NextAggregate == AggregateCall

SpecAggregate == InitAggregate /\ [][NextAggregate]_vars

-----------------------------------------------------------------------------
(* SpecFilter: apply_filters called on every table and every filters dict   *)
(* of the bounded sets; the caller then writes a cell of the result         *)

\* the value written into a cell of the result
Marker == Str("C")

InitFilter ==
    /\ pc = "ready"
    /\ arg_data \in Frames(MaxFilterRows)
    /\ arg_filters \in FilterDicts
    /\ arg_group_by = ""
    /\ arg_agg_column = ""
    /\ arg_agg_function = ""
    /\ ChartUnused
    /\ heap = <<arg_data>>
    /\ result_ref = 0
    /\ result = NoResult
    /\ data = None
    /\ filtered_data = None
    /\ UiUnused

FilterCall ==
    /\ pc = "ready"
    /\ LET r == apply_filters(heap, 1, arg_filters)
       IN /\ heap' = r.heap
          /\ result_ref' = r.ref
          /\ result' = IF r.exc = "" THEN Ok(r.heap[r.ref]) ELSE Raise(r.exc, "")
    /\ pc' = "done"
    /\ UNCHANGED <<args, chart_vars, data, filtered_data, ui>>

\* result.iloc[0, j] = Marker, for a column j of the result
MutateResult ==
    /\ pc = "done"
    /\ result_ref # 0
    /\ Len(heap[result_ref].rows) > 0
    /\ \E c \in Range(heap[result_ref].columns) :
        heap' = [heap EXCEPT ![result_ref].rows[1][c] = Marker]
    /\ pc' = "mutated"
    /\ UNCHANGED <<args, chart_vars, result_ref, result, data, filtered_data, ui>>

NextFilter == FilterCall \/ MutateResult

SpecFilter == InitFilter /\ [][NextFilter]_vars

-----------------------------------------------------------------------------
(* Spec: the Streamlit script of app.py.  Every interaction of the user     *)
(* runs the script once from the top (main), and st.rerun() runs it again;  *)
(* an action is one run of the script.  The chart configurations, the       *)
(* dashboard layout and the Export tab change none of the tables and are    *)
(* left out.                                                                *)

\* st.session_state as main reads and writes it
Session(d, fd, counter, w) ==
    [data |-> d, filtered_data |-> fd, filter_update_counter |-> counter, widgets |-> w]

\* the button clicked in this run, with the values of the three selectboxes
Click(button, group_by, agg_column, agg_function) ==
    [button |-> button, group_by |-> group_by, agg_column |-> agg_column,
     agg_function |-> agg_function]
NoClick == Click("none", "", "", "")

\* data[col].unique(): the distinct cells, the missing one among them
unique(df, col) == {r[col] : r \in Range(df.rows)}

\* data[col].min() and .max(): over the non-missing cells
column_min(df, col) ==
    LET S == {r[col].n : r \in {x \in Range(df.rows) : notna(x[col])}}
    IN CHOOSE m \in S : \A y \in S : m <= y
column_max(df, col) ==
    LET S == {r[col].n : r \in {x \in Range(df.rows) : notna(x[col])}}
    IN CHOOSE m \in S : \A y \in S : m >= y

\* select_dtypes(include=[np.number]) and select_dtypes(include=['object'])
numeric_columns(df) == SelectSeq(df.columns, LAMBDA c : dtype(df, c) # "object")
categorical_columns(df) == SelectSeq(df.columns, LAMBDA c : dtype(df, c) = "object")

\* the value of the multiselect of column col: its default is every option
multiselect_value(df, w, col) ==
    IF w[col] = None THEN unique(df, col) ELSE Get(w[col])

\* the value of the slider of column col: its default is (min, max)
slider_value(df, w, col) ==
    IF w[col] = None THEN <<column_min(df, col), column_max(df, col)>> ELSE Get(w[col])

\* the entry of one column in the filters dict (lines 264-287), if any
column_filter(df, w, col) ==
    IF dtype(df, col) = "object"
    THEN IF Cardinality(multiselect_value(df, w, col)) < Cardinality(unique(df, col))
         THEN <<ListFilter(col, multiselect_value(df, w, col))>>
         ELSE <<>>
    ELSE IF slider_value(df, w, col)[1] > column_min(df, col)
            \/ slider_value(df, w, col)[2] < column_max(df, col)
         THEN <<RangeFilter(col, slider_value(df, w, col)[1], slider_value(df, w, col)[2])>>
         ELSE <<>>

\* the filters dict of lines 260-287, its entries in column order
RECURSIVE build_filters(_, _, _)
build_filters(df, w, i) ==
    IF i > Len(df.columns) THEN <<>>
    ELSE column_filter(df, w, df.columns[i]) \o build_filters(df, w, i + 1)

\* the except clause leaves the session as it was
store_loaded_keeps(ss, r) ==
    IF r.exc = ""
    THEN [ss EXCEPT !.data = Some(r.value), !.filtered_data = Some(r.value)]
    ELSE ss

\* what lines 62-63 and 74-75 leave in the session for load_data's outcome r
store_loaded(ss, r) ==
    IF r.exc = ""
    THEN [ss EXCEPT !.data = Some(r.value), !.filtered_data = Some(r.value)]
    ELSE [ss EXCEPT !.data = None, !.filtered_data = None]

\* main, lines 59-75: the file in the uploader is loaded in every run
upload_block(ss, file) ==
    IF file = None THEN ss ELSE store_loaded(ss, load_data(Get(file)))

\* display_dashboard, lines 192-194: filtered_data is set when it is None
ensure_filtered(ss) ==
    IF ss.filtered_data = None THEN [ss EXCEPT !.filtered_data = ss.data] ELSE ss

\* create_chart_widget, lines 169-175: the table handed to create_chart, None
\* when the working table is empty and no chart is created
chart_data(ss) ==
    IF ~empty(Get(ss.filtered_data)) THEN ss.filtered_data ELSE None

\* lines 290-304 set the working table from data and the filters alone
filter_data(df, filters) ==
    IF filters # <<>> THEN Some(apply_filters_value(df, filters).value) ELSE Some(df)

explorer_filtered(ss) ==
    filter_data(Get(ss.data), build_filters(Get(ss.data), ss.widgets, 1))

\* the aggregation written into the loaded table as well
aggregate_clicked_overwrites_base(s1, agg) ==
    [ss |-> [s1 EXCEPT !.filtered_data = agg.filtered_data,
                       !.data = IF agg.raised THEN @ ELSE agg.filtered_data],
     rerun |-> ~agg.raised]

\* lines 343-347: the session after the aggregation's outcome agg, and
\* whether st.rerun() is reached
aggregate_clicked(s1, agg) ==
    [ss |-> [s1 EXCEPT !.filtered_data = agg.filtered_data], rerun |-> ~agg.raised]

\* lines 306-347 on the session s1 that lines 248-304 leave
explorer_buttons(s1, click) ==
    IF click.button = "reset"
    THEN [ss |-> [s1 EXCEPT !.widgets = NoWidgets, !.filtered_data = s1.data],
          rerun |-> TRUE]
    ELSE IF click.button = "aggregate"
            /\ numeric_columns(Get(s1.data)) # <<>>
            /\ categorical_columns(Get(s1.data)) # <<>>
    THEN aggregate_clicked(s1, apply_aggregation(s1.filtered_data, click.group_by,
                                                 click.agg_column, click.agg_function))
    ELSE [ss |-> s1, rerun |-> FALSE]

\* display_data_explorer, lines 248-347: the session after it, and whether
\* st.rerun() was called
display_data_explorer(ss, click) ==
    explorer_buttons([ss EXCEPT !.filtered_data = explorer_filtered(ss),
                                !.filter_update_counter = @ + 1],
                     click)

\* the tabs, with the table the Dashboard tab handed to create_chart
show_tabs(s1, click, chart) ==
    [ss |-> display_data_explorer(s1, click).ss,
     rendered |-> chart,
     rerun |-> display_data_explorer(s1, click).rerun]

\* main, lines 77-102, on the session the upload block leaves
main_tabs(s1, click) ==
    IF s1.data = None THEN [ss |-> s1, rendered |-> None, rerun |-> FALSE]
    ELSE show_tabs(ensure_filtered(s1), click, chart_data(ensure_filtered(s1)))

\* one run of the script: main, lines 38-102
main(ss, file, click) == main_tabs(upload_block(ss, file), click)

\* history: the table in effect in a run, the loaded table with the filters
\* the widgets hold and the aggregation the user applied, if any
aggregated(filtered, agg) ==
    IF agg = None THEN filtered
    ELSE apply_aggregation(filtered, Get(agg).group_by, Get(agg).agg_column,
                           Get(agg).agg_function).filtered_data

table_in_effect(ss, agg) ==
    IF ss.data = None THEN None ELSE aggregated(explorer_filtered(ss), agg)

Init ==
    /\ pc = "idle"
    /\ arg_data = NoFrame
    /\ arg_group_by = ""
    /\ arg_agg_column = ""
    /\ arg_agg_function = ""
    /\ arg_filters = <<>>
    /\ ChartUnused
    /\ heap = <<>>
    /\ result_ref = 0
    /\ result = NoResult
    /\ data = None
    /\ filtered_data = None
    /\ UiUnused

\* the script run that follows: file is in the uploader, w are the widget
\* values, click the button pressed, agg the aggregation applied so far
ScriptRun(file, w, click, agg) ==
    /\ filter_update_counter < MaxRuns
    /\ \E run \in {main(Session(data, filtered_data, filter_update_counter, w),
                        file, click)} :
        /\ data' = run.ss.data
        /\ filtered_data' = run.ss.filtered_data
        /\ filter_update_counter' = run.ss.filter_update_counter
        /\ widgets' = run.ss.widgets
        /\ rendered' = run.rendered
        /\ agg_applied' = IF click.button = "reset" THEN None
                          ELSE IF click.button = "aggregate" /\ run.rerun THEN Some(click)
                          ELSE agg
        /\ pc' = IF run.rerun THEN "rerun" ELSE "idle"
    /\ uploaded_file' = file
    /\ in_effect' = table_in_effect(
            upload_block(Session(data, filtered_data, filter_update_counter, w), file),
            agg)
    /\ UNCHANGED <<args, chart_vars, heap, result_ref, result>>

\* the user puts a file into the empty uploader; the filter widgets start
\* afresh
UserUploadsFile ==
    /\ pc = "idle"
    /\ uploaded_file = None
    /\ \E f \in Uploads : ScriptRun(Some(f), NoWidgets, NoClick, None)

\* the user takes the file out of the uploader
UserRemovesFile ==
    /\ pc = "idle"
    /\ uploaded_file # None
    /\ ScriptRun(None, widgets, NoClick, agg_applied)

\* the user changes the selection of a multiselect (lines 266-271)
UserSelects ==
    /\ pc = "idle"
    /\ data # None
    /\ \E i \in 1..Len(categorical_columns(Get(data))) :
        LET col == categorical_columns(Get(data))[i]
        IN \E selected \in SUBSET unique(Get(data), col) :
            /\ selected # multiselect_value(Get(data), widgets, col)
            /\ ScriptRun(uploaded_file, [widgets EXCEPT ![col] = Some(selected)],
                         NoClick, None)

\* the user moves a slider (lines 278-284)
UserSlides ==
    /\ pc = "idle"
    /\ data # None
    /\ \E i \in 1..Len(numeric_columns(Get(data))) :
        LET col == numeric_columns(Get(data))[i]
            lo == column_min(Get(data), col)
            hi == column_max(Get(data), col)
        IN \E a \in lo..hi : \E b \in a..hi :
            /\ <<a, b>> # slider_value(Get(data), widgets, col)
            /\ ScriptRun(uploaded_file, [widgets EXCEPT ![col] = Some(<<a, b>>)],
                         NoClick, None)

\* the user clicks Reset Filters (line 307)
UserClicksReset ==
    /\ pc = "idle"
    /\ data # None
    /\ ScriptRun(uploaded_file, widgets, Click("reset", "", "", ""), agg_applied)

\* the user clicks Apply Aggregation (line 343) under the three selectboxes
UserClicksAggregate ==
    /\ pc = "idle"
    /\ data # None
    /\ \E g \in Range(categorical_columns(Get(data))),
          a \in Range(numeric_columns(Get(data))),
          f \in AggFunctions :
            ScriptRun(uploaded_file, widgets, Click("aggregate", g, a, f), agg_applied)

\* any other interaction (a chart setting, the layout) runs the script
UserInteracts ==
    /\ pc = "idle"
    /\ ScriptRun(uploaded_file, widgets, NoClick, agg_applied)

\* the run st.rerun() asked for
Rerun ==
    /\ pc = "rerun"
    /\ ScriptRun(uploaded_file, widgets, NoClick, agg_applied)

Next ==
    \/ UserUploadsFile
    \/ UserRemovesFile
    \/ UserSelects
    \/ UserSlides
    \/ UserClicksReset
    \/ UserClicksAggregate
    \/ UserInteracts
    \/ Rerun

Spec == Init /\ [][Next]_vars

-----------------------------------------------------------------------------
(* SpecLoad: the upload block of main (app.py:59-75) run on every file of   *)
(* the bounded sets, in a session that holds no table or the table of an    *)
(* earlier upload (arg_data, NoFrame when there was none)                   *)

InitLoad ==
    /\ pc = "ready"
    /\ uploaded_file \in {Some(f) : f \in LoadFiles(MaxLoadRows)}
    /\ arg_data \in {NoFrame, SampleFrame}
    /\ data = IF arg_data = NoFrame THEN None ELSE Some(arg_data)
    /\ filtered_data = data
    /\ arg_group_by = ""
    /\ arg_agg_column = ""
    /\ arg_agg_function = ""
    /\ arg_filters = <<>>
    /\ ChartUnused
    /\ heap = <<>>
    /\ result_ref = 0
    /\ result = NoResult
    /\ filter_update_counter = 0
    /\ widgets = NoWidgets
    /\ rendered = None
    /\ in_effect = None
    /\ agg_applied = None

\* lines 59-75: load_data is called and its outcome stored in the session
LoadCall ==
    /\ pc = "ready"
    /\ \E r \in {load_data(Get(uploaded_file))} :
        /\ result' = r
        /\ \E ss \in {store_loaded(Session(data, filtered_data, 0, NoWidgets), r)} :
            /\ data' = ss.data
            /\ filtered_data' = ss.filtered_data
    /\ pc' = "done"
    /\ UNCHANGED <<args, chart_vars, heap, result_ref, ui>>

NextLoad == LoadCall

SpecLoad == InitLoad /\ [][NextLoad]_vars

-----------------------------------------------------------------------------
(* SpecChart: create_chart called, as create_chart_widget calls it          *)
(* (app.py:171-175), on every table, kind and config of the bounded sets;   *)
(* arg_data keeps the table as it was passed in                             *)

InitChart ==
    /\ pc = "ready"
    /\ filtered_data \in ChartTables(MaxChartRows)
    /\ arg_chart_type \in ChartTypeArgs
    /\ arg_config \in ConfigArgs(arg_chart_type)
    /\ figure = NoFigure
    /\ data = filtered_data
    /\ arg_data = IF filtered_data = None THEN NoFrame ELSE Get(filtered_data)
    /\ arg_group_by = ""
    /\ arg_agg_column = ""
    /\ arg_agg_function = ""
    /\ arg_filters = <<>>
    /\ heap = <<>>
    /\ result_ref = 0
    /\ result = NoResult
    /\ UiUnused

ChartCall ==
    /\ pc = "ready"
    /\ \E object_sum_fails \in BOOLEAN :
        figure' = create_chart(filtered_data, arg_chart_type, arg_config, object_sum_fails)
    /\ filtered_data' = data_after_chart(filtered_data, arg_chart_type, arg_config)
    /\ pc' = "done"
    /\ UNCHANGED <<args, arg_chart_type, arg_config, heap, result_ref, result, data, ui>>

NextChart == ChartCall

SpecChart == InitChart /\ [][NextChart]_vars

-----------------------------------------------------------------------------
(* Claims about aggregate_data, under SpecAggregate *)

Called == pc = "done"
Succeeded == Called /\ result.exc = ""
out_rows == result.value.rows
in_rows == arg_data.rows
in_keys == {in_rows[i][arg_group_by] : i \in 1..Len(in_rows)}

\* the position of the first input row whose group_by cell is k
first_index(k) ==
    CHOOSE i \in 1..Len(in_rows) :
        /\ in_rows[i][arg_group_by] = k
        /\ \A j \in 1..(i - 1) : in_rows[j][arg_group_by] # k

\* the input rows of group k whose agg_column cell is not missing
non_missing_in_group(k) ==
    {i \in 1..Len(in_rows) :
        in_rows[i][arg_group_by] = k /\ notna(in_rows[i][arg_agg_column])}

\* C2 as stated: the output rows are in the order in which their group_by
\* values first appear in the input rows.
C2_Orig_FirstAppearanceOrder ==
    Succeeded =>
        \A i, j \in 1..Len(out_rows) :
            i < j => first_index(out_rows[i][arg_group_by])
                        < first_index(out_rows[j][arg_group_by])

\* C2 as amended: the output rows are in ascending order of the group_by
\* value (sorted by key), whatever the order of the input rows.
C2_SortedByKey ==
    Succeeded =>
        \A i, j \in 1..Len(out_rows) :
            i < j => CellLess(out_rows[i][arg_group_by], out_rows[j][arg_group_by])

\* input rows with keys B then A, both aggregated
C2_Witness ==
    /\ Succeeded
    /\ Len(out_rows) = 2
    /\ Len(in_rows) >= 2
    /\ in_rows[1].Category = Str("B")
    /\ in_rows[2].Category = Str("A")
    /\ arg_group_by = "Category"

\* C3 as stated: when an input row has a missing group_by value, the output
\* has exactly one row for the missing-key group.
C3_Orig_MissingKeyGroup ==
    (Succeeded /\ NaN \in in_keys) =>
        Cardinality({i \in 1..Len(out_rows) : isna(out_rows[i][arg_group_by])}) = 1

\* C3 as amended: the rows are partitioned by equal group_by value and the
\* rows whose group_by value is missing belong to no group: the output keys
\* are exactly the non-missing input keys and no output row has a missing key.
C3_MissingKeyDropped ==
    Succeeded =>
        /\ {out_rows[i][arg_group_by] : i \in 1..Len(out_rows)} = in_keys \ {NaN}
        /\ \A i \in 1..Len(out_rows) : notna(out_rows[i][arg_group_by])

C3_Witness ==
    /\ Succeeded
    /\ NaN \in in_keys
    /\ in_keys # {NaN}
    /\ Len(out_rows) = Cardinality(in_keys) - 1

\* the output rows whose partition has no non-missing agg_column value
all_missing_rows ==
    {i \in 1..Len(out_rows) : non_missing_in_group(out_rows[i][arg_group_by]) = {}}

agg_cell(i) == out_rows[i][result.value.columns[2]]

\* C4 as stated: a partition whose target values are all missing yields a
\* missing result for sum, mean, min and max, and 0 for count.
C4_Orig_AllMissingPartition ==
    Succeeded =>
        \A i \in all_missing_rows :
            IF arg_agg_function = "count" THEN agg_cell(i) = Num(0)
            ELSE isna(agg_cell(i))

\* C4 as amended: such a partition yields a missing result for mean, min and
\* max, and 0 for sum and for count; the call does not fail.
C4_AllMissingPartition ==
    (Called /\ arg_agg_function \in AggFunctions /\ arg_group_by # arg_agg_column
        /\ has_column(arg_data, arg_group_by) /\ has_column(arg_data, arg_agg_column)) =>
        /\ result.exc = ""
        /\ \A i \in all_missing_rows :
            IF arg_agg_function \in {"count", "sum"} THEN agg_cell(i) = Num(0)
            ELSE isna(agg_cell(i))

C4_Witness ==
    /\ Succeeded
    /\ arg_agg_function = "sum"
    /\ all_missing_rows # {}
    /\ \E i \in all_missing_rows : agg_cell(i) = Num(0)

\* C5: with agg_function = "count" the call succeeds whatever cells are
\* missing, and each group's result is the number of its rows whose
\* agg_column value is not missing.
C5_CountNonMissing ==
    (Called /\ arg_agg_function = "count" /\ arg_group_by # arg_agg_column
        /\ has_column(arg_data, arg_group_by) /\ has_column(arg_data, arg_agg_column)) =>
        /\ result.exc = ""
        /\ \A i \in 1..Len(out_rows) :
            agg_cell(i) = Num(Cardinality(non_missing_in_group(out_rows[i][arg_group_by])))

\* a group of three rows, one of them with a missing target: count 2
C5_Witness ==
    /\ Succeeded
    /\ arg_agg_function = "count"
    /\ \E i \in 1..Len(out_rows) :
        LET k == out_rows[i][arg_group_by]
        IN /\ agg_cell(i) = Num(2)
           /\ \E j \in 1..Len(in_rows) :
                in_rows[j][arg_group_by] = k /\ isna(in_rows[j][arg_agg_column])

\* C6: the call raises, and returns no table, whenever agg_function is not
\* one of the five or group_by or agg_column is not a column of the table;
\* the Apply Aggregation statement then leaves filtered_data as it was.
C6_FailsAndKeepsWorkingTable ==
    (Called /\ (\/ arg_agg_function \notin AggFunctions
                \/ ~has_column(arg_data, arg_group_by)
                \/ ~has_column(arg_data, arg_agg_column))) =>
        /\ result.exc # ""
        /\ result.value = NoFrame
        /\ filtered_data = Some(arg_data)

C6_Witness ==
    /\ Called
    /\ arg_agg_function = "median"
    /\ has_column(arg_data, arg_group_by)
    /\ has_column(arg_data, arg_agg_column)
    /\ Len(in_rows) > 0
    /\ result.exc = "Exception"
    /\ filtered_data = Some(arg_data)

\* C7 as stated: a successful call returns two columns, group_by and
\* "{function}_{target}", and one row per distinct group_by value of the input.
C7_Orig_OneRowPerValue ==
    Succeeded =>
        /\ result.value.columns = <<arg_group_by, arg_agg_function \o "_" \o arg_agg_column>>
        /\ Len(out_rows) = Cardinality(in_keys)

\* C7 as amended: a successful call returns exactly two columns, group_by
\* and "{function}_{target}" ("sum_Value" for sum of Value), and exactly one
\* row per distinct non-missing group_by value of the input.
C7_TwoColumnsOneRowPerKey ==
    Succeeded =>
        /\ result.value.columns = <<arg_group_by, arg_agg_function \o "_" \o arg_agg_column>>
        /\ (arg_agg_function = "sum" /\ arg_agg_column = "Value")
                => result.value.columns[2] = "sum_Value"
        /\ \A i \in 1..Len(out_rows) : DOMAIN out_rows[i] = Range(result.value.columns)
        /\ \A k \in in_keys \ {NaN} :
            Cardinality({i \in 1..Len(out_rows) : out_rows[i][arg_group_by] = k}) = 1
        /\ Len(out_rows) = Cardinality(in_keys \ {NaN})

C7_Witness ==
    /\ Succeeded
    /\ arg_agg_function = "sum"
    /\ arg_agg_column = "Value"
    /\ arg_group_by = "Category"
    /\ result.value.columns = <<"Category", "sum_Value">>
    /\ Len(in_rows) = 3
    /\ Len(out_rows) = 2
    /\ NaN \notin in_keys

-----------------------------------------------------------------------------
(* Claims about apply_filters, under SpecFilter *)

Returned == pc \in {"done", "mutated"} /\ result.exc = ""

\* min <= cell <= max, of a number
in_range(cell, lo, hi) == cell.t = "num" /\ lo * cell.d <= cell.n /\ cell.n <= hi * cell.d

\* the predicate of one entry: none when the column is absent or the value
\* is neither a list nor a 2-tuple
satisfies(r, f) ==
    IF ~has_column(arg_data, f.column) THEN TRUE
    ELSE IF f.kind = "list" THEN r[f.column] \in f.members
    ELSE IF f.kind = "tuple" THEN in_range(r[f.column], f.lo, f.hi)
    ELSE TRUE

satisfies_all(r) == \A i \in 1..Len(arg_filters) : satisfies(r, arg_filters[i])

\* no range is put on a column holding a string
well_typed ==
    \A i \in 1..Len(arg_filters) :
        (arg_filters[i].kind = "tuple" /\ has_column(arg_data, arg_filters[i].column))
            => \A j \in 1..Len(arg_data.rows) :
                    arg_data.rows[j][arg_filters[i].column].t # "str"

\* C8: with a range filter (min, max) on column C, every row of the output
\* has min <= row[C] <= max, bounds included, and when the range is the only
\* filter every input row with min <= row[C] <= max is in the output.
C8_RangeInclusive ==
    Returned =>
        /\ \A i \in 1..Len(arg_filters) :
            (arg_filters[i].kind = "tuple" /\ has_column(arg_data, arg_filters[i].column))
                => \A j \in 1..Len(result.value.rows) :
                        in_range(result.value.rows[j][arg_filters[i].column],
                                 arg_filters[i].lo, arg_filters[i].hi)
        /\ (Len(arg_filters) = 1 /\ arg_filters[1].kind = "tuple"
                /\ has_column(arg_data, arg_filters[1].column))
                => LET Sat(r) == in_range(r[arg_filters[1].column],
                                          arg_filters[1].lo, arg_filters[1].hi)
                   IN result.value.rows = SelectSeq(arg_data.rows, Sat)

\* the range (1, 1) keeps a row whose value is the bound and drops another
C8_Witness ==
    /\ Returned
    /\ arg_filters = <<RangeFilter("Value", 1, 1)>>
    /\ Len(arg_data.rows) = 2
    /\ arg_data.rows[1].Value = Num(1)
    /\ arg_data.rows[2].Value = Num(2)
    /\ result.value.rows = <<arg_data.rows[1]>>

\* C9: the input object always holds the table passed in, also after a cell
\* of the result is written; with no filters the result equals the input by
\* value and is another object.
C9_CopyNotAlias ==
    /\ heap[1] = arg_data
    /\ (pc \in {"done", "mutated"} /\ arg_filters = <<>>) =>
            /\ result.exc = ""
            /\ result.value = arg_data
            /\ result_ref # 1

C9_Witness ==
    /\ pc = "mutated"
    /\ arg_filters = <<>>
    /\ heap[result_ref] # arg_data
    /\ heap[1] = arg_data

\* C10: the output holds exactly the input rows that satisfy every entry's
\* predicate, in their input order, under the input's columns, whatever the
\* iteration order of the entries; a filters dict that puts no range on a
\* column of strings never makes the call fail.
C10_ConjunctionInOrder ==
    /\ (pc \in {"done", "mutated"} /\ well_typed) => result.exc = ""
    /\ Returned =>
        /\ result.value.columns = arg_data.columns
        /\ result.value.rows = SelectSeq(arg_data.rows, satisfies_all)

\* two entries, each dropping a row the other keeps
C10_Witness ==
    /\ Returned
    /\ Len(arg_filters) = 2
    /\ Len(arg_data.rows) = 2
    /\ \A i \in 1..2 : has_column(arg_data, arg_filters[i].column)
    /\ satisfies(arg_data.rows[1], arg_filters[1])
    /\ ~satisfies(arg_data.rows[1], arg_filters[2])
    /\ ~satisfies(arg_data.rows[2], arg_filters[1])
    /\ satisfies(arg_data.rows[2], arg_filters[2])
    /\ result.value.rows = <<>>

\* the entries of arg_filters whose column is a column of the table
present_filters ==
    SelectSeq(arg_filters, LAMBDA f : has_column(arg_data, f.column))

C12_MembershipOfList ==
    Returned =>
        \A i \in 1..Len(arg_filters) :
            (arg_filters[i].kind = "list" /\ has_column(arg_data, arg_filters[i].column)) =>
                LET C == arg_filters[i].column
                    Member(r) == r[C] \in arg_filters[i].members
                IN /\ \A j \in 1..Len(result.value.rows) : Member(result.value.rows[j])
                   /\ NaN \notin arg_filters[i].members =>
                        \A j \in 1..Len(result.value.rows) : notna(result.value.rows[j][C])
                   /\ Len(arg_filters) = 1 =>
                        result.value.rows = SelectSeq(arg_data.rows, Member)

\* the list holds the missing value: the row with a missing Category stays
\* and a row whose Category is not in the list goes
C12_Witness ==
    /\ Returned
    /\ arg_filters = <<ListFilter("Category", {Str("B"), NaN})>>
    /\ Len(arg_data.rows) = 2
    /\ arg_data.rows[1].Category = Str("A")
    /\ arg_data.rows[2].Category = NaN
    /\ result.value.rows = <<arg_data.rows[2]>>

\* C12 as stated: with a membership filter on column C, a row is in the
\* output only if its C value is a member of the allowed list, no row of the
\* output has a missing C value whatever the list holds, and when the
\* membership filter is the only entry the output is exactly the rows whose
\* C value is a non-missing member.
C12_Orig_MembershipExcludesMissing ==
    Returned =>
        \A i \in 1..Len(arg_filters) :
            (arg_filters[i].kind = "list" /\ has_column(arg_data, arg_filters[i].column)) =>
                LET C == arg_filters[i].column
                    Member(r) == r[C] \in arg_filters[i].members /\ notna(r[C])
                IN /\ \A j \in 1..Len(result.value.rows) : Member(result.value.rows[j])
                   /\ Len(arg_filters) = 1 =>
                        result.value.rows = SelectSeq(arg_data.rows, Member)

-----------------------------------------------------------------------------
(* Claims about load_data and the upload block, under SpecLoad *)

Loaded == pc = "done" /\ result.exc = ""

\* what the reader made of the file, and its rows that are not empty
read_frame ==
    IF lower(Get(uploaded_file).ext) = "csv" THEN infer_types(Get(uploaded_file).frame)
    ELSE Get(uploaded_file).frame
kept_rows ==
    SelectSeq(read_frame.rows, LAMBDA r : \E c \in Range(read_frame.columns) : notna(r[c]))

\* the column holds text when loading starts; kept are the rows read
textual(kept, c) == \E i \in 1..Len(kept) : kept[i][c].t = "str"

reads_as_number(cell) == cell \in {Str("1"), Str("2")}
reads_as_date(cell) == cell = Str("2024-01-05")
as_number(cell) ==
    IF cell = Str("1") THEN Num(1) ELSE IF cell = Str("2") THEN Num(2) ELSE NaN
as_date(cell) == IF reads_as_date(cell) THEN Date(cell.s) ELSE NaN

n_numbers(kept, c) == Cardinality({i \in 1..Len(kept) : reads_as_number(kept[i][c])})
n_dates(kept, c) == Cardinality({i \in 1..Len(kept) : reads_as_date(kept[i][c])})
n_non_missing(kept, c) == Cardinality({i \in 1..Len(kept) : notna(kept[i][c])})

\* the loaded column is the numeric (date) reading of the column, with a
\* missing cell wherever the field does not read as one
became_numeric(kept, c) ==
    \A i \in 1..Len(kept) : result.value.rows[i][c] = as_number(kept[i][c])
became_dates(kept, c) ==
    \A i \in 1..Len(kept) : result.value.rows[i][c] = as_date(kept[i][c])
stays_text(kept, c) ==
    \A i \in 1..Len(kept) : result.value.rows[i][c] = kept[i][c]

\* C13 as stated: a textual column is replaced by its numeric reading, the
\* unconvertible cells missing, exactly when more than half of its
\* non-missing cells read as numbers.
C13_Orig_ShareOfNonMissing ==
    Loaded =>
        \E kept \in {kept_rows} :
            \A c \in Range(result.value.columns) :
                textual(kept, c) =>
                    (became_numeric(kept, c) <=> 2 * n_numbers(kept, c) > n_non_missing(kept, c))

\* C13 as amended: a textual column is replaced by its numeric reading, the
\* unconvertible cells missing, exactly when the cells that read as numbers
\* are more than half of the table's rows (the rows left after the empty
\* rows are dropped), a missing cell counting against the conversion.
C13_ShareOfRows ==
    Loaded =>
        \E kept \in {kept_rows} :
            /\ Len(result.value.rows) = Len(kept)
            /\ \A c \in Range(result.value.columns) :
                textual(kept, c) =>
                    (became_numeric(kept, c) <=> 2 * n_numbers(kept, c) > Len(kept))

\* two of three fields read as numbers: the third becomes missing
C13_Witness ==
    /\ Loaded
    /\ \E kept \in {kept_rows} :
        /\ Len(kept) = 3
        /\ textual(kept, "Code")
        /\ n_numbers(kept, "Code") = 2
        /\ became_numeric(kept, "Code")
        /\ \E i \in 1..3 : kept[i].Code = Str("A") /\ result.value.rows[i].Code = NaN

\* C14: a textual column of which exactly half of the cells read as numbers
\* (as dates), whether half of the rows or half of the non-missing cells, is
\* not replaced by numbers (by dates); such a column stays as it was read.
C14_StrictThreshold ==
    Loaded =>
        \E kept \in {kept_rows} :
            \A c \in Range(result.value.columns) :
                textual(kept, c) =>
                    /\ (\/ 2 * n_numbers(kept, c) = Len(kept)
                        \/ 2 * n_numbers(kept, c) = n_non_missing(kept, c))
                            => ~became_numeric(kept, c) /\ stays_text(kept, c)
                    /\ (\/ 2 * n_dates(kept, c) = Len(kept)
                        \/ 2 * n_dates(kept, c) = n_non_missing(kept, c))
                            => ~became_dates(kept, c) /\ stays_text(kept, c)

\* one of two fields reads as a number, one of two as a date
C14_Witness ==
    /\ Loaded
    /\ \E kept \in {kept_rows} :
        /\ Len(kept) = 2
        /\ n_numbers(kept, "Code") = 1 /\ n_non_missing(kept, "Code") = 2
        /\ n_dates(kept, "When") = 1 /\ n_non_missing(kept, "When") = 2
        /\ stays_text(kept, "Code")
        /\ stays_text(kept, "When")
        /\ result.value.rows = kept

\* the file cannot be loaded: its extension is none of csv, xlsx, xls, or
\* its content does not parse, under Latin-1 either
unloadable ==
    \/ lower(Get(uploaded_file).ext) \notin {"csv", "xlsx", "xls"}
    \/ ~Get(uploaded_file).parses

\* C15: when the file cannot be loaded, load_data raises and returns no
\* table, and the session then holds neither a base table nor a working
\* table, whatever an earlier upload left there; no other file fails.
C15_FailedLoadClearsSession ==
    pc = "done" =>
        /\ unloadable <=> result.exc # ""
        /\ unloadable =>
            /\ result.value = NoFrame
            /\ data = None
            /\ filtered_data = None

\* a CSV that is not UTF-8 and does not parse under Latin-1, uploaded into
\* a session that held a table
C15_Witness ==
    /\ pc = "done"
    /\ arg_data = SampleFrame
    /\ Get(uploaded_file).ext = "csv"
    /\ Get(uploaded_file).encoding = "latin-1"
    /\ ~Get(uploaded_file).parses
    /\ result.exc = "Exception"
    /\ data = None
    /\ filtered_data = None

-----------------------------------------------------------------------------
(* Claims about create_chart, under SpecChart *)

ChartCalled == pc = "done" /\ arg_chart_type # ""
SupportedKinds == {"bar", "line", "scatter", "pie"}
is_placeholder == figure.kind = "empty"
is_chart == figure.kind \in SupportedKinds
non_empty_table == filtered_data # None /\ ~empty(Get(filtered_data))

\* the config fields a kind requires and those it may use
required_fields(kind) == IF kind = "pie" THEN {"values", "names"} ELSE {"x", "y"}
optional_fields(kind) ==
    IF kind = "scatter" THEN {"color", "size"}
    ELSE IF kind = "pie" THEN {} ELSE {"color"}

is_set(field) == arg_config[field] # None /\ arg_config[field] # Some("")
is_absent(field) ==
    is_set(field) /\ ~has_column(Get(filtered_data), Get(arg_config[field]))

\* C16 as stated: on a non-empty table and for a supported kind, the
\* result is a Placeholder whenever a column named by a field the kind uses
\* (x, y, color, size, values, names) is not a column of the table.
C16_Orig_AnyAbsentColumn ==
    (ChartCalled /\ non_empty_table /\ arg_chart_type \in SupportedKinds
        /\ \E f \in required_fields(arg_chart_type) \cup optional_fields(arg_chart_type) :
                is_absent(f))
        => is_placeholder

\* C16 as amended: on a non-empty table and for a supported kind, the
\* result is a Placeholder whenever a column named by a required field (x,
\* y; values, names for a pie) is not a column of the table; a color or size
\* column that is not a column of the table is ignored: no Placeholder is
\* returned for it, and the chart is drawn without color (size).
C16_RequiredAbsentColumn ==
    (ChartCalled /\ non_empty_table /\ arg_chart_type \in SupportedKinds) =>
        /\ (\E f \in required_fields(arg_chart_type) : is_absent(f)) => is_placeholder
        /\ (\A f \in required_fields(arg_chart_type) : is_set(f) /\ ~is_absent(f)) =>
            /\ figure.message # "Selected columns not found in data"
            /\ \A f \in optional_fields(arg_chart_type) :
                    (is_absent(f) /\ is_chart) => figure[f] = None
            /\ (arg_chart_type # "pie"
                    /\ \A f \in optional_fields(arg_chart_type) : ~is_set(f) \/ is_absent(f))
                    => figure.kind = arg_chart_type

\* a bar chart whose color column is not in the table is drawn, uncolored
C16_Witness ==
    /\ ChartCalled
    /\ non_empty_table
    /\ arg_chart_type = "bar"
    /\ arg_config.x = Some("Category")
    /\ arg_config.y = Some("Value")
    /\ arg_config.color = Some("Region")
    /\ figure.kind = "bar"
    /\ figure.color = None

\* the chart methods raise: the sizes of a scatter plot are not all numbers,
\* or the names column of a pie is its values column
construction_fails ==
    /\ non_empty_table
    /\ \/ /\ arg_chart_type = "scatter"
          /\ is_set("x") /\ ~is_absent("x") /\ is_set("y") /\ ~is_absent("y")
          /\ is_set("size") /\ ~is_absent("size")
          /\ \E r \in Range(Get(filtered_data).rows) : r[Get(arg_config.size)].t # "num"
       \/ /\ arg_chart_type = "pie"
          /\ is_set("values") /\ ~is_absent("values")
          /\ arg_config.names = arg_config.values

\* C17: for every table, absent and empty included, every kind, supported
\* or not, and every config, the call returns a chart or a Placeholder and
\* lets no exception out; when the construction of the chart fails, the
\* result is a Placeholder whose message carries the error's text.
C17_ChartOrPlaceholder ==
    ChartCalled =>
        /\ is_chart \/ is_placeholder
        /\ is_placeholder => figure.message # ""
        /\ arg_chart_type \notin SupportedKinds => is_placeholder
        /\ construction_fails =>
            /\ is_placeholder
            /\ \E text \in {"Invalid element(s) received for the 'size' property",
                              "cannot insert Category, already exists",
                              "cannot insert Value, already exists"} :
                    figure.message = "Error creating chart: " \o text

\* a scatter plot sized by a text column
C17_Witness ==
    /\ ChartCalled
    /\ non_empty_table
    /\ arg_chart_type = "scatter"
    /\ arg_config.size = Some("Category")
    /\ \E r \in Range(Get(filtered_data).rows) : r.Category.t = "str"
    /\ is_placeholder
    /\ figure.message = "Error creating chart: Invalid element(s) received for the 'size' property"

\* C18: with an empty table, one without rows or without columns, the
\* result is the "No data available" Placeholder for every kind and every
\* config.
C18_EmptyTablePlaceholder ==
    (ChartCalled /\ filtered_data # None /\ empty(Get(filtered_data))) =>
        figure = _create_empty_chart("No data available")

\* a bar chart fully configured for a table with columns but no rows
C18_Witness ==
    /\ ChartCalled
    /\ arg_chart_type = "bar"
    /\ filtered_data = Some(DataFrame(<<"Category", "Value">>, <<>>))
    /\ arg_config.x = Some("Category")
    /\ arg_config.y = Some("Value")
    /\ is_placeholder

\* C19: on a non-empty table and for a supported kind, the result is a
\* Placeholder whenever a required field is unset (None or empty); its
\* message asks to select the fields and is not that of an empty table.
C19_UnsetFieldPlaceholder ==
    (ChartCalled /\ non_empty_table /\ arg_chart_type \in SupportedKinds
        /\ \E f \in required_fields(arg_chart_type) : ~is_set(f)) =>
        /\ figure = _create_empty_chart(select_message(arg_chart_type))
        /\ figure.message # "No data available"
        /\ figure.message \in {"Please select X and Y axes for bar chart",
                               "Please select X and Y axes for line chart",
                               "Please select X and Y axes for scatter plot",
                               "Please select Values and Names for pie chart"}

\* a bar chart with x set and y unset
C19_Witness ==
    /\ ChartCalled
    /\ non_empty_table
    /\ arg_chart_type = "bar"
    /\ arg_config.x = Some("Category")
    /\ arg_config.y = None
    /\ figure.message = "Please select X and Y axes for bar chart"

\* the pie that was drawn: its slices and the table it was drawn from
pie_drawn == ChartCalled /\ figure.kind = "pie"
slices == figure.frame.rows
pie_names == Get(arg_config.names)
pie_values == Get(arg_config.values)
pie_input == Get(filtered_data).rows
names_in_input == {pie_input[i][pie_names] : i \in 1..Len(pie_input)}

\* the sum of the non-missing values of the input rows named k
sum_for_name(k) ==
    LET S == {i \in 1..Len(pie_input) :
                pie_input[i][pie_names] = k /\ pie_input[i][pie_values].t = "num"}
        RECURSIVE Total(_)
        Total(T) == IF T = {} THEN 0
                    ELSE LET i == CHOOSE j \in T : TRUE
                         IN pie_input[i][pie_values].n + Total(T \ {i})
    IN Num(Total(S))

numeric_values == \A i \in 1..Len(pie_input) : pie_input[i][pie_values].t # "str"

\* C20 as stated: the pie has exactly one slice per distinct value of the
\* names column, and each slice's value is the sum of the values column over
\* the input rows with that name.
C20_Orig_SlicePerName ==
    pie_drawn =>
        /\ Len(slices) = Cardinality(names_in_input)
        /\ \A k \in names_in_input :
                Cardinality({i \in 1..Len(slices) : slices[i][pie_names] = k}) = 1
        /\ numeric_values =>
                \A i \in 1..Len(slices) :
                    slices[i][pie_values] = sum_for_name(slices[i][pie_names])

\* C20 as amended: the pie has exactly one slice per distinct non-missing
\* value of the names column, the rows whose name is missing being in no
\* slice, and each slice's value is the sum of the non-missing values of the
\* values column over the input rows with that name.
C20_SlicePerNonMissingName ==
    pie_drawn =>
        /\ Len(slices) = Cardinality(names_in_input \ {NaN})
        /\ \A k \in names_in_input \ {NaN} :
                Cardinality({i \in 1..Len(slices) : slices[i][pie_names] = k}) = 1
        /\ \A i \in 1..Len(slices) : notna(slices[i][pie_names])
        /\ numeric_values =>
                \A i \in 1..Len(slices) :
                    slices[i][pie_values] = sum_for_name(slices[i][pie_names])

\* two rows of one name with values 1 and 2: one slice of 3
C20_Witness ==
    /\ pie_drawn
    /\ pie_names = "Category"
    /\ pie_values = "Value"
    /\ Len(pie_input) = 2
    /\ pie_input[1].Category = pie_input[2].Category
    /\ pie_input[1].Value = Num(1)
    /\ pie_input[2].Value = Num(2)
    /\ Len(slices) = 1
    /\ slices[1].Value = Num(3)

\* the line chart that was drawn: the rows it renders and the rows passed in
line_drawn == ChartCalled /\ figure.kind = "line"
line_rows == figure.frame.rows
line_x == Get(arg_config.x)

\* how often row r occurs in rows
occurrences(rows, r) == Cardinality({i \in 1..Len(rows) : rows[i] = r})

\* C21: the rows a line chart renders are the input rows in ascending order
\* of x, rows with a missing x after the others, whatever the input order:
\* no later row has a smaller x, every input row is rendered as often as it
\* occurs in the input, and the table passed in keeps its row order.
C21_LineSortedByX ==
    /\ line_drawn =>
        /\ \A i, j \in 1..Len(line_rows) :
                i < j => /\ ~(notna(line_rows[i][line_x]) /\ notna(line_rows[j][line_x])
                                /\ CellLess(line_rows[j][line_x], line_rows[i][line_x]))
                         /\ isna(line_rows[i][line_x]) => isna(line_rows[j][line_x])
        /\ Len(line_rows) = Len(arg_data.rows)
        /\ \A r \in Range(arg_data.rows) \cup Range(line_rows) :
                occurrences(line_rows, r) = occurrences(arg_data.rows, r)
        /\ figure.frame.columns = arg_data.columns
    /\ (ChartCalled /\ filtered_data # None) => filtered_data = Some(arg_data)

\* x-values [2, 1] are rendered as [1, 2], the input still [2, 1]
C21_Witness ==
    /\ line_drawn
    /\ line_x = "Value"
    /\ Len(arg_data.rows) = 2
    /\ arg_data.rows[1].Value = Num(2)
    /\ arg_data.rows[2].Value = Num(1)
    /\ line_rows = <<arg_data.rows[2], arg_data.rows[1]>>
    /\ filtered_data = Some(arg_data)

-----------------------------------------------------------------------------
(* Claims about the session, under Spec *)

\* C1: in every script run, the charts are created from the table in
\* effect, the loaded table under the selected filters and the applied
\* aggregation, and from no other table.
C1_ChartFromTableInEffect ==
    rendered # None => rendered = in_effect

\* a step that puts a new file into the uploader: the one session operation
\* that loads a table
new_upload == uploaded_file' # None /\ uploaded_file' # uploaded_file

\* the run in which Reset Filters was clicked has just ended
reset_done == pc = "rerun" /\ agg_applied = None

\* C22: once a table is loaded, no run of the script changes it unless a new
\* file is uploaded: applying filters, applying an aggregation, resetting
\* the filters and rendering leave data as it is; and the run in which Reset
\* Filters is clicked ends with a working table equal to the loaded table.
C22_BaseTableUnchanged ==
    [][/\ (data # None /\ ~new_upload) => data' = data
       /\ reset_done' => (data' # None /\ filtered_data' = data')]_vars

\* filters are set and an aggregation was applied: the working table is the
\* aggregate and data is still the table loaded from the file
C22_Witness ==
    /\ pc = "rerun"
    /\ agg_applied # None
    /\ widgets # NoWidgets
    /\ uploaded_file # None
    /\ data = Some(load_data(Get(uploaded_file)).value)
    /\ filtered_data # data

=============================================================================
